---- MODULE Spec2Model ----
(***************************************************************************)
(* Model of the serial-line interpreter of Scintomatic (src/Scintomatic.py):*)
(* Scintomatic.interpreter, Scintomatic.bytechunk_interpreter and          *)
(* Scintomatic.byte_reconstructor, with the state they keep between calls. *)
(* A byte is a number in 0..255 and a buffer (Python bytes) is a sequence  *)
(* of bytes; Python index i is TLA+ index i+1.                             *)
(***************************************************************************)
EXTENDS Integers, Sequences, FiniteSets, TLC

VARIABLES
    prevline,               \* Scintomatic.prevline
    binaryblock,            \* Scintomatic.binaryblock
    interrupted_bytechunk,  \* Scintomatic.interrupted_bytechunk (Unset until =>Start(binary))
    bitsum,                 \* Scintomatic.bitsum
    ydata,                  \* Scintomatic.spectrumpanel.ydata
    xdata,                  \* Scintomatic.spectrumpanel.xdata, as its length: always range(0, n) or []
    ringtext,               \* text shown in Scintomatic.spectrumpanel.progressRing
    prevtime,               \* Scintomatic.prevtime
    non_sec_mode,           \* Scintomatic.non_sec_mode
    time_xdata,             \* Scintomatic.timepanel.xdata
    time_ydata,             \* Scintomatic.timepanel.ydata
    raised,                 \* how the last interpreter() call ended: "none" or the exception's class
    lastraw,                \* the raw buffer the last interpreter() call took from the queue
    nreads,                 \* number of buffers the serial thread has read so far
    seen252,                \* history: a binary buffer held a 252 since the last reset or block start
    spectrum,               \* experiments: the channel counts the instrument sends
    stream,                 \* experiments: their encoding, the bytes of the binary block
    cut,                    \* experiments: the offset at which the transport splits the stream
    phase,                  \* experiments: which buffer is read next ("free": any buffer)
    feed,                   \* experiments: the buffers of a binary block, in the order they are read
    chunks_handed,          \* history: the chunks the last call handed to bytechunk_interpreter
    bits_received,          \* history: set bits of the binary buffers read since the last reset
    fn_arg,                 \* functions: the argument a function is applied to
    fn_result,              \* functions: what the function returned
    serialinqueue,          \* threads: Scintomatic.serialinqueue, oldest buffer first
    mail,                   \* threads: youvegotmail signals posted to the main thread, not yet delivered
    reader,                 \* threads: where checkSerial of self.serialhelper is: "off" (no thread started yet),
                            \*   "guard" (line 380), "read" (in read_until), "put", "emit", "exited"
    reader_bytes,           \* threads: receivedbytes of that checkSerial
    main,                   \* threads: what the main thread runs: "idle" in its event loop, "busy" while
                            \*   interpreter() holds a buffer, "off_wait" and "close_wait" in the wait()
                            \*   of serialSwitch_responder and closeEvent, "closed" after app.quit(),
                            \*   "crashed" when the process was aborted
    main_bytes,             \* threads: rawbytes of the interpreter() call in progress
    readlog,                \* history: the buffers the serial thread has read, in order
    handed,                 \* history: the buffers interpreter() has taken, in order
    interruption,           \* threads: self.serialthread.isInterruptionRequested()
    serialswitch,           \* threads: "on"/"off" as serialSwitch.isChecked(), "closed" once the window closed
    sessions,               \* threads: how many times the switch was turned on
    orphans,                \* threads: checkSerial of the helpers that were replaced while it ran: for each,
                            \*   where it is (at) and its receivedbytes (bytes); its queue is a replaced one
    dropped                 \* history: positions in readlog of the buffers out of interpreter()'s reach:
                            \*   left on a replaced queue, or read by a checkSerial whose queue was replaced

vars == <<prevline, binaryblock, interrupted_bytechunk, bitsum, ydata, xdata, ringtext,
          prevtime, non_sec_mode, time_xdata, time_ydata, raised, lastraw, nreads, seen252,
          spectrum, stream, cut, phase, feed, chunks_handed, bits_received, fn_arg, fn_result,
          serialinqueue, mail, reader, reader_bytes, main, main_bytes, readlog, handed,
          interruption, serialswitch, sessions, orphans, dropped>>

\* the decoder's state, which only interpreter() changes
decoder == <<prevline, binaryblock, interrupted_bytechunk, bitsum, ydata, xdata, ringtext,
             prevtime, non_sec_mode, time_xdata, time_ydata, raised, lastraw, nreads, seen252,
             chunks_handed, bits_received>>

\* the variables of the experiments
inputs == <<spectrum, stream, cut, feed, fn_arg, fn_result>>

\* the variables of the two threads
threads == <<serialinqueue, mail, reader, reader_bytes, main, main_bytes, readlog, handed,
             interruption, serialswitch, sessions, orphans, dropped>>

(***************************************************************************)
(* Bounds of the model                                                     *)
(***************************************************************************)
\* number of buffers read from the serial port in one behaviour
MaxReads == 5
\* number of base-250 digits of one reconstructed value (Python integers are unbounded)
MaxDigits == 2
\* number of channels of the spectra that are split at every offset
MaxChannels == 3

(***************************************************************************)
(* Byte strings of the source                                              *)
(***************************************************************************)
NL == 10
CR == 13
b_StartTime   == <<83,116,97,114,116,32,84,105,109,101,32>>
b_t           == <<123,116,32>>
b_StartBinary == <<61,62,83,116,97,114,116,40,98,105,110,97,114,121,41>>
b_EndBinary   == <<61,62,69,110,100,40,98,105,110,97,114,121,41>>
b_Bitsum      == <<66,105,116,115,117,109,58>>
b_Bracket     == <<91,32>>
b_Name        == <<78,97,109,101,58,60,32>>

\* the value of an attribute that has not been assigned yet
Unset == <<-1>>

(***************************************************************************)
(* Python built-ins used by the interpreter                                *)
(***************************************************************************)
\* data[i:] for a 0-based Python index i
DropFirst(data, n) == SubSeq(data, n + 1, Len(data))

\* bytes.startswith(prefix)
startswith(data, prefix) ==
    /\ Len(prefix) <= Len(data)
    /\ SubSeq(data, 1, Len(prefix)) = prefix

\* bytes.strip(chars): drop every leading and trailing byte that is in chars
RECURSIVE lstrip(_, _)
lstrip(data, chars) ==
    IF data # <<>> /\ Head(data) \in chars THEN lstrip(Tail(data), chars) ELSE data

RECURSIVE rstrip(_, _)
rstrip(data, chars) ==
    IF data # <<>> /\ data[Len(data)] \in chars
    THEN rstrip(SubSeq(data, 1, Len(data) - 1), chars)
    ELSE data

strip(data, chars) == rstrip(lstrip(data, chars), chars)

\* position of the first occurrence of sep in data (1-based), 0 when absent
find(data, sep) ==
    IF \E i \in DOMAIN data : data[i] = sep
    THEN CHOOSE i \in DOMAIN data : data[i] = sep /\ \A j \in 1..(i - 1) : data[j] # sep
    ELSE 0

\* bytes.split(sep) / str.split(sep) for a one-byte separator: the pieces
\* between separators, empty pieces kept
\* data.split(sep) without the empty chunks
RECURSIVE split_skipping(_, _)
split_skipping(data, sep) ==
    LET i == find(data, sep) IN
    IF i = 0 THEN <<data>>
    ELSE IF i = 1 THEN split_skipping(DropFirst(data, 1), sep)
    ELSE <<SubSeq(data, 1, i - 1)>> \o split_skipping(DropFirst(data, i), sep)

RECURSIVE split(_, _)
split(data, sep) ==
    LET i == find(data, sep) IN
    IF i = 0 THEN <<data>>
    ELSE <<SubSeq(data, 1, i - 1)>> \o split(DropFirst(data, i), sep)

\* bin(rawbyte).count("1")
RECURSIVE popcount(_)
popcount(rawbyte) == IF rawbyte = 0 THEN 0 ELSE (rawbyte % 2) + popcount(rawbyte \div 2)

\* sum([bin(rawbyte).count("1") for rawbyte in rawbytes])
RECURSIVE bitcount(_)
bitcount(rawbytes) ==
    IF rawbytes = <<>> THEN 0 ELSE popcount(Head(rawbytes)) + bitcount(Tail(rawbytes))

\* [0]*n, one entry short
zeros_one_less(n) == [i \in 1..(n - 1) |-> 0]

\* [0]*n
zeros(n) == [i \in 1..n |-> 0]

\* 256**n
RECURSIVE pow256(_)
pow256(n) == IF n = 0 THEN 1 ELSE 256 * pow256(n - 1)

RECURSIVE pow250(_)
pow250(n) == IF n = 0 THEN 1 ELSE 250 * pow250(n - 1)

(***************************************************************************)
(* int(x) of Python for a decimal literal: optional white space around, an *)
(* optional sign, digits with single underscores between them.  white is   *)
(* the white space of the argument's type (bytes or str).                  *)
(***************************************************************************)
WhiteBytes == {9, 10, 11, 12, 13, 32}
WhiteStr   == {9, 10, 11, 12, 13, 32, 133, 160}
Digits     == 48..57
Underscore == 95

int_body(data, white) ==
    LET t == strip(data, white) IN
    IF t # <<>> /\ Head(t) \in {43, 45} THEN Tail(t) ELSE t

int_negative(data, white) ==
    LET t == strip(data, white) IN t # <<>> /\ Head(t) = 45

\* FALSE where int() raises ValueError
int_ok(data, white) ==
    LET d == int_body(data, white) IN
    /\ d # <<>>
    /\ \A i \in DOMAIN d : d[i] \in Digits \cup {Underscore}
    /\ d[1] \in Digits
    /\ d[Len(d)] \in Digits
    /\ \A i \in 1..(Len(d) - 1) : ~(d[i] = Underscore /\ d[i + 1] = Underscore)

RECURSIVE digits_value(_, _)
digits_value(d, acc) ==
    IF d = <<>> THEN acc
    ELSE IF Head(d) = Underscore THEN digits_value(Tail(d), acc)
    ELSE digits_value(Tail(d), 10 * acc + (Head(d) - 48))

int_value(data, white) ==
    LET v == digits_value(int_body(data, white), 0) IN
    IF int_negative(data, white) THEN 0 - v ELSE v

(***************************************************************************)
(* CommBasics.tobytes / CommBasics.tostring for byte_formatting 'latin-1'  *)
(***************************************************************************)
\* bytes are dispatched to _bytes_tobytes, which returns its argument
tobytes(data) == data

\* bytes are dispatched to _bytes_tostring: latin-1 maps byte b to code point b
tostring(data) == [i \in DOMAIN data |-> data[i]]

(***************************************************************************)
(* Scintomatic.byte_reconstructor                                          *)
(***************************************************************************)
\* the substitution left out: every byte stands for itself
translate_plain(byte) == byte

\* the substitution of one byte (252 is handled by the caller's break)
translate(byte) ==
    IF byte = 253 THEN 13
    ELSE IF byte = 254 THEN 35
    ELSE byte

\* translated_bytes that leaves out every 252 and goes on with the next byte
RECURSIVE translated_bytes_skipping(_)
translated_bytes_skipping(LSB_to_MSB_dec_bytes) ==
    IF LSB_to_MSB_dec_bytes = <<>> THEN <<>>
    ELSE IF Head(LSB_to_MSB_dec_bytes) = 252
    THEN translated_bytes_skipping(Tail(LSB_to_MSB_dec_bytes))
    ELSE <<translate(Head(LSB_to_MSB_dec_bytes))>>
             \o translated_bytes_skipping(Tail(LSB_to_MSB_dec_bytes))

\* the bytes before the first 252: the loop breaks there
RECURSIVE translated_bytes(_)
translated_bytes(LSB_to_MSB_dec_bytes) ==
    IF LSB_to_MSB_dec_bytes = <<>> THEN <<>>
    ELSE IF Head(LSB_to_MSB_dec_bytes) = 252 THEN <<>>
    ELSE <<translate(Head(LSB_to_MSB_dec_bytes))>> \o translated_bytes(Tail(LSB_to_MSB_dec_bytes))

RECURSIVE positional_sum(_, _)
positional_sum(t, bytenum) ==
    IF t = <<>> THEN 0
    ELSE Head(t) * pow250(bytenum) + positional_sum(Tail(t), bytenum + 1)

byte_reconstructor(LSB_to_MSB_dec_bytes) ==
    positional_sum(translated_bytes(LSB_to_MSB_dec_bytes), 0)

(***************************************************************************)
(* Scintomatic.bytechunk_interpreter                                       *)
(* The results are records [y |-> ydata afterwards, exc |-> "none" or the  *)
(* exception that ended the call].                                         *)
(***************************************************************************)
\* zero_run_loop that takes the bytes after a run for the length of one more run
RECURSIVE zero_run_loop_runs(_, _, _)
zero_run_loop_runs(y, decchunk, chunkindex) ==
    IF ~(chunkindex < Len(decchunk)) THEN [y |-> y, exc |-> "none"]
    ELSE IF decchunk[chunkindex + 1] = 251
    THEN IF chunkindex + 1 >= Len(decchunk)
         THEN [y |-> y, exc |-> "IndexError"]
         ELSE zero_run_loop_runs(y \o zeros(byte_reconstructor(<<decchunk[chunkindex + 2]>>)),
                                 decchunk, chunkindex + 2)
    ELSE IF decchunk[chunkindex + 1] = 252
    THEN [y |-> y, exc |-> "none"]
    ELSE [y |-> y \o zeros(byte_reconstructor(DropFirst(decchunk, chunkindex))), exc |-> "none"]

\* zero_run_loop without the chaining: what follows the first run is one value
zero_run_loop_unchained(y, decchunk, chunkindex) ==
    IF Len(decchunk) < 2 THEN [y |-> y, exc |-> "IndexError"]
    ELSE LET y1 == y \o zeros(byte_reconstructor(<<decchunk[2]>>)) IN
         IF Len(decchunk) = 2 \/ decchunk[3] = 252 THEN [y |-> y1, exc |-> "none"]
         ELSE [y |-> Append(y1, byte_reconstructor(DropFirst(decchunk, 2))), exc |-> "none"]

\* the while loop over a chunk that starts with 251; chunkindex is 0-based
RECURSIVE zero_run_loop(_, _, _)
zero_run_loop(y, decchunk, chunkindex) ==
    IF ~(chunkindex < Len(decchunk)) THEN [y |-> y, exc |-> "none"]
    ELSE IF decchunk[chunkindex + 1] = 251
    THEN IF chunkindex + 1 >= Len(decchunk)
         THEN [y |-> y, exc |-> "IndexError"]   \* decchunk[chunkindex+1] past the end
         ELSE zero_run_loop(y \o zeros(byte_reconstructor(<<decchunk[chunkindex + 2]>>)),
                            decchunk, chunkindex + 2)
    ELSE IF decchunk[chunkindex + 1] = 252
    THEN [y |-> y, exc |-> "none"]
    ELSE [y |-> Append(y, byte_reconstructor(DropFirst(decchunk, chunkindex))), exc |-> "none"]

\* decode_chunk with the value assigned to ydata instead of appended to it
decode_chunk_overwriting(y, decchunk) ==
    IF Len(decchunk) = 0 THEN [y |-> y, exc |-> "none"]
    ELSE IF decchunk[1] = 251 THEN zero_run_loop(y, decchunk, 0)
    ELSE [y |-> <<byte_reconstructor(decchunk)>>, exc |-> "none"]

\* decode_chunk without the skip: an empty chunk is reconstructed like any other
decode_chunk_unskipped(y, decchunk) ==
    IF Len(decchunk) > 0 /\ decchunk[1] = 251 THEN zero_run_loop(y, decchunk, 0)
    ELSE [y |-> Append(y, byte_reconstructor(decchunk)), exc |-> "none"]

\* the body of the for loop for one chunk
decode_chunk(y, decchunk) ==
    IF Len(decchunk) = 0 THEN [y |-> y, exc |-> "none"]
    ELSE IF decchunk[1] = 251 THEN zero_run_loop(y, decchunk, 0)
    ELSE [y |-> Append(y, byte_reconstructor(decchunk)), exc |-> "none"]

\* the for loop: an exception leaves the loop and the method
RECURSIVE decode_chunks(_, _)
decode_chunks(y, bytechunks) ==
    IF bytechunks = <<>> THEN [y |-> y, exc |-> "none"]
    ELSE LET r == decode_chunk(y, Head(bytechunks)) IN
         IF r.exc # "none" THEN r ELSE decode_chunks(r.y, Tail(bytechunks))

\* s is the interpreter's state; xdata is refreshed only when the loop ends normally
bytechunk_interpreter(s, bytechunks) ==
    LET r == decode_chunks(s.ydata, bytechunks) IN
    IF r.exc # "none"
    THEN [s EXCEPT !.ydata = r.y, !.raised = r.exc]
    ELSE [s EXCEPT !.ydata = r.y, !.xdata = Len(r.y)]


(***************************************************************************)
(* The regular expressions of Scintomatic.__init__, as used by findall()[0]*)
(***************************************************************************)
Letters   == (65..90) \cup (97..122)
WordChars == Letters \cup Digits \cup {Underscore}       \* \w of a bytes pattern
NameClass == {32, 45} \cup WordChars                     \* [\ \-\w]
TimeClass == {32} \cup Digits                            \* [\ 0-9]
DateClass == Letters \cup {46}                           \* [A-Za-z\.]

\* every byte of data[lo..hi] (1-based, inclusive) is in class
AllIn(data, lo, hi, class) == \A i \in lo..hi : data[i] \in class

\* number of bytes of class that follow position p (1-based), greedily
RECURSIVE span(_, _, _)
span(data, p, class) ==
    IF p + 1 <= Len(data) /\ data[p + 1] \in class THEN 1 + span(data, p + 1, class) ELSE 0

\* regex_time matches with "{t" at position i
time_match_at(data, i) ==
    /\ i + 1 <= Len(data)
    /\ data[i] = 123 /\ data[i + 1] = 116
    /\ LET r == i + 2 + span(data, i + 1, TimeClass) IN
       /\ r + 1 <= Len(data)
       /\ data[r] = 82 /\ data[r + 1] = 58

\* regex_time.findall(data): FALSE where [0] raises IndexError
time_found(data) == \E i \in DOMAIN data : time_match_at(data, i)

\* the groups (rawtime, counts) of the leftmost match
time_groups(data) ==
    LET i == CHOOSE k \in DOMAIN data :
                 time_match_at(data, k) /\ \A j \in 1..(k - 1) : ~time_match_at(data, j)
        n == span(data, i + 1, TimeClass)
        r == i + 2 + n
        m == span(data, r + 1, TimeClass)
    IN [rawtime |-> SubSeq(data, i + 2, i + 1 + n), counts |-> SubSeq(data, r + 2, r + 1 + m)]

\* ([0-9]*) ([A-Za-z\.]*)([0-9]{4}) matches from position p on
date_match_at(data, p) ==
    \E d \in 0..Len(data), l \in 0..Len(data) :
        /\ p + d + l + 4 <= Len(data)
        /\ AllIn(data, p, p + d - 1, Digits)
        /\ data[p + d] = 32
        /\ AllIn(data, p + d + 1, p + d + l, DateClass)
        /\ AllIn(data, p + d + l + 1, p + d + l + 4, Digits)

\* regex_protocolname_spectrum.findall(data): FALSE where [0] raises IndexError
protocolname_spectrum_found(data) ==
    \E i \in DOMAIN data :
        /\ data[i] = 91
        /\ LET c == i + 1 + span(data, i, NameClass) IN
           /\ c <= Len(data)
           /\ data[c] = 93
           /\ \E sp \in 0..Len(data) :
                  /\ c + sp <= Len(data)
                  /\ AllIn(data, c + 1, c + sp, {32})
                  /\ date_match_at(data, c + sp + 1)

\* regex_protocolname_time.findall(data): FALSE where [0] raises IndexError
protocolname_time_found(data) ==
    \E i \in DOMAIN data :
        /\ i + 5 <= Len(data)
        /\ SubSeq(data, i, i + 5) = <<78, 97, 109, 101, 58, 60>>
        /\ LET c == i + 6 + span(data, i + 5, NameClass) IN
           /\ c <= Len(data)
           /\ data[c] = 62
           /\ date_match_at(data, c + 1)

(***************************************************************************)
(* PlotPanel.reinit for the two panels                                     *)
(***************************************************************************)
spectrum_reinit(s) == [s EXCEPT !.xdata = 0, !.ydata = <<>>, !.ringtext = "blank"]

time_reinit(s) == [s EXCEPT !.time_xdata = <<>>, !.time_ydata = <<>>]

(***************************************************************************)
(* Scintomatic.interpreter, one branch of the pattern dispatch each.       *)
(* s is the record of the object's fields; the result is the record after  *)
(* the branch, with raised set when an exception left it.                  *)
(***************************************************************************)
\* the f-string of the start time: int() of three fields of the line split at ":"
starttime_exc(receivedbytes) ==
    LET strparts == split(tostring(receivedbytes), 58)
        p0 == strparts[1]
        last2 == IF Len(p0) <= 2 THEN p0 ELSE DropFirst(p0, Len(p0) - 2)
    IN IF ~int_ok(last2, WhiteStr) THEN "ValueError"
       ELSE IF Len(strparts) < 2 THEN "IndexError"
       ELSE IF ~int_ok(strparts[2], WhiteStr) THEN "ValueError"
       ELSE IF Len(strparts) < 3 THEN "IndexError"
       ELSE IF ~int_ok(strparts[3], WhiteStr) THEN "ValueError"
       ELSE "none"

on_start_time(s, receivedbytes) ==
    IF starttime_exc(receivedbytes) # "none"
    THEN [s EXCEPT !.raised = starttime_exc(receivedbytes)]
    ELSE IF startswith(s.prevline, b_Bracket)
    THEN LET s1 == [spectrum_reinit(s) EXCEPT !.bitsum = 0] IN
         IF protocolname_spectrum_found(s.prevline) THEN s1
         ELSE [s1 EXCEPT !.raised = "IndexError"]
    ELSE IF startswith(s.prevline, b_Name)
    THEN LET s1 == [time_reinit(s) EXCEPT !.prevtime = -1, !.non_sec_mode = FALSE] IN
         IF protocolname_time_found(s.prevline) THEN s1
         ELSE [s1 EXCEPT !.raised = "IndexError"]
    ELSE s

\* the time branch from plotline.setData(xdata, ydata) on: setData refuses
\* lists of different lengths, and then prevtime keeps its value
on_time_plot(s, t) ==
    IF Len(s.time_xdata) # Len(s.time_ydata) THEN [s EXCEPT !.raised = "Exception"]
    ELSE [s EXCEPT !.prevtime = t]

on_time(s, receivedbytes) ==
    IF ~time_found(receivedbytes) THEN [s EXCEPT !.raised = "IndexError"]
    ELSE LET g == time_groups(receivedbytes) IN
    IF ~int_ok(g.rawtime, WhiteBytes) THEN [s EXCEPT !.raised = "ValueError"]
    ELSE LET t == int_value(g.rawtime, WhiteBytes)
             s1 == IF t < s.prevtime THEN [time_reinit(s) EXCEPT !.non_sec_mode = FALSE]
                   ELSE IF t = s.prevtime THEN [s EXCEPT !.non_sec_mode = TRUE]
                   ELSE s
         IN
         IF s1.non_sec_mode /\ s1.time_xdata = <<>> THEN [s1 EXCEPT !.raised = "IndexError"]
         ELSE LET x == IF s1.non_sec_mode THEN s1.time_xdata[Len(s1.time_xdata)] + 1 ELSE t
                  s2 == [s1 EXCEPT !.time_xdata = Append(@, x)]
              IN IF ~int_ok(g.counts, WhiteBytes) THEN [s2 EXCEPT !.raised = "ValueError"]
                 ELSE on_time_plot(
                         [s2 EXCEPT !.time_ydata = Append(@, int_value(g.counts, WhiteBytes))], t)

\* on_start_binary without the assignment to interrupted_bytechunk
on_start_binary_keeping(s) ==
    [s EXCEPT !.binaryblock = TRUE]

on_start_binary(s) ==
    [s EXCEPT !.binaryblock = TRUE, !.interrupted_bytechunk = <<>>]

on_end_binary(s) ==
    LET s1 == [s EXCEPT !.binaryblock = FALSE] IN
    IF s.interrupted_bytechunk = Unset THEN [s1 EXCEPT !.raised = "AttributeError"]
    ELSE LET s2 == bytechunk_interpreter(s1, <<s1.interrupted_bytechunk>>) IN
         IF s2.raised # "none" THEN s2
         ELSE IF ~(Len(s2.ydata) = 1024)
         THEN [s2 EXCEPT !.ringtext = "exclaim", !.raised = "ScintomaticError"]
         ELSE s2

\* on_bitsum that takes a mismatch for a failed acquisition
on_bitsum_strict(s, receivedbytes) ==
    LET arg == DropFirst(receivedbytes, 7) IN
    IF ~int_ok(arg, WhiteBytes) THEN [s EXCEPT !.raised = "ValueError"]
    ELSE IF int_value(arg, WhiteBytes) = s.bitsum THEN [s EXCEPT !.ringtext = "check"]
    ELSE [s EXCEPT !.ringtext = "exclaim", !.raised = "ScintomaticError"]

on_bitsum(s, receivedbytes) ==
    LET arg == DropFirst(receivedbytes, 7) IN
    IF ~int_ok(arg, WhiteBytes) THEN [s EXCEPT !.raised = "ValueError"]
    ELSE IF int_value(arg, WhiteBytes) = s.bitsum THEN [s EXCEPT !.ringtext = "check"]
    ELSE [s EXCEPT !.ringtext = "approx"]

\* reassemble that joins the fragment to the first chunk whatever the first byte is
reassemble_always_joining(interrupted, rawbytes, bytechunks) ==
    IF ~(interrupted = <<>>)
    THEN [bytechunks EXCEPT ![1] = interrupted \o bytechunks[1]]
    ELSE bytechunks

\* the chunk list after the check of the fragment held from the last buffer
reassemble(interrupted, rawbytes, bytechunks) ==
    IF ~(interrupted = <<>>)
    THEN IF SubSeq(rawbytes, 1, 1) = <<255>> THEN <<interrupted>> \o bytechunks
         ELSE IF SubSeq(rawbytes, 1, 1) = <<252>> THEN <<interrupted>> \o bytechunks
         ELSE [bytechunks EXCEPT ![1] = interrupted \o bytechunks[1]]
    ELSE bytechunks

\* looks_interrupted that takes only the separator for the end of a chunk
looks_interrupted_unless_255(rawbytes) ==
    ~(SubSeq(rawbytes, Len(rawbytes), Len(rawbytes)) = <<255>>)

\* TRUE when the last chunk is held back: the buffer ends with neither 255 nor 252
looks_interrupted(rawbytes) ==
    LET lastbyte == SubSeq(rawbytes, Len(rawbytes), Len(rawbytes)) IN
    ~(lastbyte = <<255>> \/ lastbyte = <<252>>)

\* the chunk list after both checks: the chunks handed to bytechunk_interpreter
chunks_to_decode(interrupted, rawbytes) ==
    LET joined == reassemble(interrupted, rawbytes, split(tobytes(rawbytes), 255)) IN
    IF looks_interrupted(rawbytes) THEN [joined EXCEPT ![Len(joined)] = <<>>] ELSE joined

\* chunk_to_hold that keeps the fragment and the whole buffer, separators included
chunk_to_hold_unsplit(interrupted, rawbytes) ==
    IF looks_interrupted(rawbytes) THEN interrupted \o rawbytes ELSE <<>>

\* the new value of interrupted_bytechunk
chunk_to_hold(interrupted, rawbytes) ==
    LET joined == reassemble(interrupted, rawbytes, split(tobytes(rawbytes), 255)) IN
    IF looks_interrupted(rawbytes) THEN joined[Len(joined)] ELSE <<>>

on_binary(s, rawbytes) ==
    LET s1 == [s EXCEPT !.interrupted_bytechunk = chunk_to_hold(s.interrupted_bytechunk, rawbytes)]
        s2 == bytechunk_interpreter(s1, chunks_to_decode(s.interrupted_bytechunk, rawbytes))
    IN IF s2.raised # "none" THEN s2
       ELSE [s2 EXCEPT !.bitsum = @ + bitcount(rawbytes)]

\* the read timed out without data: interpreter returns before it looks at the line
crickets(receivedbytes) == receivedbytes = <<>>

\* on_crickets that takes the timeout for the end of the chunk in flight
on_crickets_clearing(s) == [s EXCEPT !.interrupted_bytechunk = <<>>]

\* "return False": no field is assigned
on_crickets(s) == s

\* the branch of the pattern dispatch that the buffer rawbytes takes in state s
branch(s, rawbytes) ==
    LET receivedbytes == strip(rawbytes, {NL}) IN
    IF crickets(receivedbytes) THEN "crickets"
    ELSE IF startswith(receivedbytes, b_StartTime) THEN "start_time"
    ELSE IF startswith(receivedbytes, b_t) THEN "time"
    ELSE IF startswith(receivedbytes, b_StartBinary) THEN "start_binary"
    ELSE IF startswith(receivedbytes, b_EndBinary) THEN "end_binary"
    ELSE IF startswith(receivedbytes, b_Bitsum) THEN "bitsum"
    ELSE IF s.binaryblock THEN "binary"
    ELSE "other"

\* the whole method for the buffer rawbytes taken from serialinqueue
interpreter(s0, rawbytes) ==
    LET s == [s0 EXCEPT !.raised = "none"]
        receivedbytes == strip(rawbytes, {NL})
        b == branch(s, rawbytes)
        r == CASE b = "start_time"   -> on_start_time(s, receivedbytes)
               [] b = "time"         -> on_time(s, receivedbytes)
               [] b = "start_binary" -> on_start_binary(s)
               [] b = "end_binary"   -> on_end_binary(s)
               [] b = "bitsum"       -> on_bitsum(s, receivedbytes)
               [] b = "binary"       -> on_binary(s, rawbytes)
               [] OTHER              -> s
    IN IF b = "crickets" THEN on_crickets(s)
       ELSE IF r.raised # "none" THEN r            \* the exception leaves the method
       ELSE [r EXCEPT !.prevline = receivedbytes]

\* a sequence of buffers interpreted in order
RECURSIVE interpret_all(_, _)
interpret_all(s, buffers) ==
    IF buffers = <<>> THEN s ELSE interpret_all(interpreter(s, Head(buffers)), Tail(buffers))

\* the fields after Scintomatic.__init__
Fresh ==
    [prevline |-> <<>>, binaryblock |-> FALSE, interrupted_bytechunk |-> Unset, bitsum |-> 0,
     ydata |-> <<>>, xdata |-> 0, ringtext |-> "blank", prevtime |-> -1,
     non_sec_mode |-> FALSE, time_xdata |-> <<>>, time_ydata |-> <<>>, raised |-> "none"]

\* the object's fields in the current state
Self ==
    [prevline |-> prevline, binaryblock |-> binaryblock,
     interrupted_bytechunk |-> interrupted_bytechunk, bitsum |-> bitsum,
     ydata |-> ydata, xdata |-> xdata, ringtext |-> ringtext, prevtime |-> prevtime,
     non_sec_mode |-> non_sec_mode, time_xdata |-> time_xdata, time_ydata |-> time_ydata,
     raised |-> raised]


(***************************************************************************)
(* The instrument's encoding of a spectrum, as the interpreter's docstring *)
(* describes it: (251, n) for a run of n <= 251 zeros, chained for longer  *)
(* runs; the base-250 digits of a non-zero value, least significant first, *)
(* followed by 255; 253 and 254 in place of the digits 13 and 35.          *)
(***************************************************************************)
wire(d) == IF d = 13 THEN 253 ELSE IF d = 35 THEN 254 ELSE d

RECURSIVE digits250(_)
digits250(v) == IF v = 0 THEN <<>> ELSE <<wire(v % 250)>> \o digits250(v \div 250)

RECURSIVE zero_runs(_)
zero_runs(n) ==
    IF n = 0 THEN <<>>
    ELSE IF n > 251 THEN <<251, 251>> \o zero_runs(n - 251)
    ELSE <<251, wire(n)>>

\* number of zeros at the head of values
leading_zeros(values) ==
    IF \A i \in DOMAIN values : values[i] = 0 THEN Len(values)
    ELSE (CHOOSE i \in DOMAIN values :
              values[i] # 0 /\ \A j \in 1..(i - 1) : values[j] = 0) - 1

RECURSIVE encode(_)
encode(values) ==
    IF values = <<>> THEN <<>>
    ELSE IF Head(values) = 0
    THEN zero_runs(leading_zeros(values)) \o encode(DropFirst(values, leading_zeros(values)))
    ELSE digits250(Head(values)) \o <<255>> \o encode(Tail(values))

(***************************************************************************)
(* Buffers the serial thread reads                                         *)
(***************************************************************************)
L_StartBinary == b_StartBinary \o <<CR>>
L_EndBinary   == <<NL>> \o b_EndBinary \o <<CR>>
\* "\nBitsum:9\r"
L_Bitsum      == <<NL>> \o b_Bitsum \o <<57, CR>>
\* "\nBitsum:73\r", the number of set bits of B_full
L_BitsumFull  == <<NL>> \o b_Bitsum \o <<55, 51, CR>>
\* "\n[ A] 1 J2022\r"
L_Preamble    == <<NL>> \o b_Bracket \o <<65, 93, 32, 49, 32, 74, 50, 48, 50, 50, CR>>
\* "\nStart Time 1:2:3\r"
L_StartTime   == <<NL>> \o b_StartTime \o <<49, 58, 50, 58, 51, CR>>
\* "{t 1R: 5\r"
L_Time        == b_t \o <<49, 82, 58, 32, 53, CR>>
\* "\nName:< A>1 J2022\r"
L_Name        == <<NL>> \o b_Name \o <<65, 62, 49, 32, 74, 50, 48, 50, 50, CR>>
\* 1024 zeros in one buffer, closed by a separator
B_full        == zero_runs(1024) \o <<255>>
\* one value
B_value       == <<7, 255>>
\* the first byte of a value whose rest comes with the next read
B_piece       == <<3>>
\* a separator and a zero-run marker whose run length comes with the next read
B_marker      == <<255, 251>>
\* the end-of-stream byte
B_eos         == <<252>>
\* a read that returned only a newline
B_newline     == <<NL>>
\* a read that timed out without data
B_empty       == <<>>

Buffers ==
    {L_StartBinary, L_EndBinary, L_Bitsum, L_BitsumFull, L_Preamble, L_StartTime, L_Time,
     L_Name, B_full, B_value, B_piece, B_marker, B_eos, B_newline, B_empty}

(***************************************************************************)
(* The state machine                                                       *)
(***************************************************************************)
\* the bytes of a chunk that are read as the digits of one value
RECURSIVE value_part(_)
value_part(chunk) ==
    IF chunk # <<>> /\ chunk[1] = 251 THEN value_part(DropFirst(chunk, 2))
    ELSE translated_bytes(chunk)

\* the chunks that interpreting rawbytes in state s hands to bytechunk_interpreter
decoded_chunks(s, rawbytes) ==
    IF branch(s, rawbytes) = "binary" THEN chunks_to_decode(s.interrupted_bytechunk, rawbytes)
    ELSE IF branch(s, rawbytes) = "end_binary" /\ s.interrupted_bytechunk # Unset
    THEN <<s.interrupted_bytechunk>>
    ELSE <<>>

\* every value the call reconstructs has at most MaxDigits base-250 digits
within_digits(s, rawbytes) ==
    \A i \in DOMAIN decoded_chunks(s, rawbytes) :
        Len(value_part(decoded_chunks(s, rawbytes)[i])) <= MaxDigits

\* TRUE when interpreting rawbytes in state s re-initialises the spectrum panel
spectrum_reset(s, rawbytes) ==
    /\ branch(s, rawbytes) = "start_time"
    /\ starttime_exc(strip(rawbytes, {NL})) = "none"
    /\ startswith(s.prevline, b_Bracket)

\* the fields of the object after construction, no buffer read yet
InitFields ==
    /\ prevline = Fresh.prevline
    /\ binaryblock = Fresh.binaryblock
    /\ interrupted_bytechunk = Fresh.interrupted_bytechunk
    /\ bitsum = Fresh.bitsum
    /\ ydata = Fresh.ydata
    /\ xdata = Fresh.xdata
    /\ ringtext = Fresh.ringtext
    /\ prevtime = Fresh.prevtime
    /\ non_sec_mode = Fresh.non_sec_mode
    /\ time_xdata = Fresh.time_xdata
    /\ time_ydata = Fresh.time_ydata
    /\ raised = Fresh.raised
    /\ lastraw = <<>>
    /\ nreads = 0
    /\ seen252 = FALSE
    /\ chunks_handed = <<>>
    /\ bits_received = 0

\* the serial thread is not running: SerialHelper.checkSerial has read nothing
NoThreads ==
    /\ serialinqueue = <<>> /\ mail = 0
    /\ reader = "off" /\ reader_bytes = <<>>
    /\ main = "idle" /\ main_bytes = <<>>
    /\ readlog = <<>> /\ handed = <<>>
    /\ interruption = FALSE /\ serialswitch = "off"
    /\ sessions = 0 /\ orphans = <<>> /\ dropped = {}

\* TRUE for a buffer that arrives inside a binary block and is not taken for a text line
binary_buffer(s, rawbytes) ==
    s.binaryblock /\ branch(s, rawbytes) \in {"binary", "crickets"}

\* one call of Scintomatic.interpreter for the buffer rawbytes
Call(rawbytes) ==
    \E r \in {interpreter(Self, rawbytes)} :
    /\ prevline' = r.prevline
    /\ binaryblock' = r.binaryblock
    /\ interrupted_bytechunk' = r.interrupted_bytechunk
    /\ bitsum' = r.bitsum
    /\ ydata' = r.ydata
    /\ xdata' = r.xdata
    /\ ringtext' = r.ringtext
    /\ prevtime' = r.prevtime
    /\ non_sec_mode' = r.non_sec_mode
    /\ time_xdata' = r.time_xdata
    /\ time_ydata' = r.time_ydata
    /\ raised' = r.raised
    /\ lastraw' = rawbytes
    /\ nreads' = nreads + 1
    /\ seen252' = IF spectrum_reset(Self, rawbytes) \/ branch(Self, rawbytes) = "start_binary"
                  THEN FALSE
                  ELSE seen252 \/ (branch(Self, rawbytes) = "binary" /\ find(rawbytes, 252) # 0)
    /\ chunks_handed' = decoded_chunks(Self, rawbytes)
    /\ bits_received' = IF spectrum_reset(Self, rawbytes) THEN 0
                        ELSE IF binary_buffer(Self, rawbytes)
                        THEN bits_received + bitcount(rawbytes)
                        ELSE bits_received

Init ==
    /\ InitFields /\ NoThreads
    /\ spectrum = <<>> /\ stream = <<>> /\ cut = 0 /\ phase = "free"
    /\ feed = <<>> /\ fn_arg = <<>> /\ fn_result = <<>>

\* the serial thread read rawbytes and the main thread interprets it
Interpret ==
    /\ phase = "free"
    /\ nreads < MaxReads
    /\ \E rawbytes \in Buffers : within_digits(Self, rawbytes) /\ Call(rawbytes)
    /\ UNCHANGED <<inputs, phase, threads>>

Next == Interpret

Spec == Init /\ [][Next]_vars

(***************************************************************************)
(* Experiment 1: one binary block whose stream the transport delivers in   *)
(* two reads, split at offset cut.                                         *)
(***************************************************************************)
\* channel counts of the split spectra: zero, one digit, the newline byte, two digits
SplitCounts == {0, 7, 10, 300}

SplitSpectra == UNION {[1..n -> SplitCounts] : n \in 1..MaxChannels}

\* the interpreter is called for rawbytes when the experiment is at phase from
Deliver(rawbytes, from, to) ==
    /\ phase = from
    /\ Call(rawbytes)
    /\ phase' = to
    /\ UNCHANGED <<inputs, threads>>

InitSplit ==
    /\ InitFields /\ NoThreads
    /\ feed = <<>> /\ fn_arg = <<>> /\ fn_result = <<>>
    /\ spectrum \in SplitSpectra
    /\ stream \in {encode(spectrum), encode(spectrum) \o <<252>>}
    /\ cut \in 0..Len(stream)
    /\ phase = "start"

SplitStart  == Deliver(L_StartBinary, "start", "first")
SplitFirst  == Deliver(SubSeq(stream, 1, cut), "first", "second")
SplitSecond == Deliver(DropFirst(stream, cut), "second", "end")
SplitEnd    == Deliver(L_EndBinary, "end", "done")

NextSplit == SplitStart \/ SplitFirst \/ SplitSecond \/ SplitEnd

SpecSplit == InitSplit /\ [][NextSplit]_vars

\* the spectrum panel's data when the same stream arrives in one read
unfragmented(bytes) == interpret_all(Fresh, <<L_StartBinary, bytes, L_EndBinary>>)

(***************************************************************************)
(* Experiment 2: one binary block whose stream arrives in a single read,   *)
(* for spectra of 1024 channels and for longer ones.                       *)
(***************************************************************************)
\* positions and counts of the one channel that is not zero
WholeOffsets == {0, 1, 251, 600, 1023}
WholeCounts  == {0, 1, 10, 13, 35, 250, 300, 2029123}
\* what the instrument sends after the 1024th channel
WholeExtras  == {<<>>, <<7>>, <<0, 0>>}

full_spectrum(a, v) == zeros(a) \o <<v>> \o zeros(1023 - a)

WholeSpectra ==
    {full_spectrum(a, v) \o e : a \in WholeOffsets, v \in WholeCounts, e \in WholeExtras}

InitWhole ==
    /\ InitFields /\ NoThreads
    /\ feed = <<>> /\ fn_arg = <<>> /\ fn_result = <<>>
    /\ spectrum \in WholeSpectra
    /\ stream = encode(spectrum)
    /\ cut = Len(stream)
    /\ phase = "wstart"

WholeStart  == Deliver(L_StartBinary, "wstart", "whole")
WholeBuffer == Deliver(stream, "whole", "wend")
WholeEnd    == Deliver(L_EndBinary, "wend", "wdone")

NextWhole == WholeStart \/ WholeBuffer \/ WholeEnd

SpecWhole == InitWhole /\ [][NextWhole]_vars

(***************************************************************************)
(* Experiment 3: one binary block that the transport delivers as the       *)
(* buffers of feed, one read each.                                         *)
(***************************************************************************)
\* number of bytes of one short buffer
MaxBufferLen == 2

\* a value byte, the zero-run marker, the end-of-stream byte, the separator
BlockBytes == {7, 251, 252, 255}

ShortBuffers == UNION {[1..n -> BlockBytes] : n \in 1..MaxBufferLen}

\* one zero-run instruction (251, N) and the separator, for every run length
ZeroRunBuffers == {<<251, N, 255>> : N \in 1..251}

\* 251 zeros and a byte 3 in one chunk; 254 zeros as the instrument sends them
B_run3  == <<251, 251, 3, 255>>
B_zeros254 == zero_runs(254) \o <<255>>

\* a chunk whose bytes are those of the line "=>End(binary)", closed by a separator
B_endlike == b_EndBinary \o <<255>>

\* run-length bytes: the shortest and the longest run, and the three reserved bytes
RunLengths == {1, 251, 252, 253, 254}

\* what follows the runs in a chunk: nothing, or the digits of one value
ValueTails == {<<>>, <<7>>, <<3, 1>>, <<253>>, <<7, 252>>}

\* one chunk of one or two zero-run pairs and a tail, closed by the separator
ChainBuffers ==
    {<<251, n1>> \o d \o <<255>> : n1 \in RunLengths, d \in ValueTails}
    \cup {<<251, n1, 251, n2>> \o d \o <<255>> : n1 \in RunLengths, n2 \in RunLengths, d \in ValueTails}

\* the pieces of a chunk that is spread over three reads, and its separator
PieceBuffers == {<<7>>, <<1>>, <<251>>, <<252>>, <<255>>, <<1, 255>>}

\* three reads of one block
TripleFeeds == {<<a, b, c>> : a \in PieceBuffers, b \in PieceBuffers, c \in PieceBuffers}

\* a value, and after it a chunk that is only the zero-run marker
B_value_marker == <<7, 255, 251, 255>>

\* the value 260 = 10 + 1 * 250, its first digit (the newline byte) in a read of its own
NewlinePieceFeed == <<<<10>>, <<1, 255>>>>

\* a chunk of three bytes in three reads, the second the newline byte
NewlineMiddleFeed == <<<<7>>, <<10>>, <<1>>>>

BlockFeeds ==
    {<<a>> : a \in ShortBuffers \cup ZeroRunBuffers \cup ChainBuffers \cup {B_run3, B_zeros254}}
    \cup {<<a, b>> : a \in ShortBuffers, b \in ShortBuffers \cup {<<251, 1, 255>>, <<251, 251, 255>>}}
    \cup {<<<<251, 5, 255>>, <<10, 255>>>>, <<B_endlike, <<7, 255>>>>}
    \cup TripleFeeds
    \cup {<<B_value_marker>>, NewlinePieceFeed, NewlineMiddleFeed}

InitBlock ==
    /\ InitFields /\ NoThreads
    /\ spectrum = <<>> /\ stream = <<>> /\ cut = 0 /\ phase = "bstart"
    /\ feed \in BlockFeeds /\ fn_arg = <<>> /\ fn_result = <<>>

BlockStart == Deliver(L_StartBinary, "bstart", "bfeed")

\* the next buffer of feed is read and interpreted; nreads counts =>Start(binary) too
BlockBuffer ==
    /\ phase = "bfeed"
    /\ within_digits(Self, feed[nreads])
    /\ Call(feed[nreads])
    /\ phase' = IF nreads = Len(feed) THEN "bfed" ELSE "bfeed"
    /\ UNCHANGED <<inputs, threads>>

NextBlock == BlockStart \/ BlockBuffer

SpecBlock == InitBlock /\ [][NextBlock]_vars

\* what the buffer rawbytes decodes to when it is the only buffer of a block
alone(rawbytes) == interpret_all(Fresh, <<L_StartBinary, rawbytes>>).ydata

(***************************************************************************)
(* Experiment 4: a time readout. The buffers are time lines with the raw   *)
(* times 1 and 2, a time line cut short before its counts, and the two     *)
(* lines that start a new readout.                                         *)
(***************************************************************************)
\* number of reads of the time readout
MaxTimeReads == 4

\* "{t 2R: 5\r"
L_Time2      == b_t \o <<50, 82, 58, 32, 53, CR>>
\* "{t 2R:\r", the line as a read that timed out before the counts returns it
L_Time2Short == b_t \o <<50, 82, 58, CR>>

TimeBuffers == {L_Time, L_Time2, L_Time2Short, L_Name, L_StartTime}

InitTime ==
    /\ InitFields /\ NoThreads
    /\ spectrum = <<>> /\ stream = <<>> /\ cut = 0 /\ phase = "time"
    /\ feed = <<>> /\ fn_arg = <<>> /\ fn_result = <<>>

TimeLine ==
    /\ nreads < MaxTimeReads
    /\ \E rawbytes \in TimeBuffers : Deliver(rawbytes, "time", "time")

NextTime == TimeLine

SpecTime == InitTime /\ [][NextTime]_vars

\* int(rawtime) of a time line
raw_time(rawbytes) == int_value(time_groups(strip(rawbytes, {NL})).rawtime, WhiteBytes)

(***************************************************************************)
(* The functions of the decoder applied to one argument each:               *)
(* byte_reconstructor to a list of bytes, its substitution to one byte,    *)
(* and the split at the separator to a raw buffer.                         *)
(***************************************************************************)
\* the base-250 digits of v, least significant first
RECURSIVE base250(_)
base250(v) == IF v = 0 THEN <<>> ELSE <<v % 250>> \o base250(v \div 250)

\* sep.join(chunks)
RECURSIVE join(_, _)
join(chunks, sep) ==
    IF Len(chunks) = 1 THEN chunks[1]
    ELSE chunks[1] \o <<sep>> \o join(Tail(chunks), sep)

\* digits of the second and third position: the smallest, the substituted, the largest
HighDigits == {0, 1, 13, 35, 249}

\* values of one to three base-250 digits, up to 15624999
RoundTripValues ==
    {a + 250 * b + 62500 * c : a \in 0..249, b \in HighDigits, c \in HighDigits} \ {0}

\* number of bytes of a raw buffer that is split
MaxRawLen == 4

\* a value byte, the zero-run marker, the separator
RawBytes == {7, 251, 255}

RawBuffers == UNION {[1..n -> RawBytes] : n \in 0..MaxRawLen}

\* bytes of a list given to byte_reconstructor: digits, the reserved bytes, the separator
DigitBytes == {0, 7, 250, 251, 252, 253, 254, 255}

\* the lists of up to MaxDigits such bytes, the empty list included
DigitLists == UNION {[1..n -> DigitBytes] : n \in 0..MaxDigits}

FnArgs ==
    {[fn |-> "byte_reconstructor", v |-> v, data |-> base250(v)] : v \in RoundTripValues}
    \cup {[fn |-> "byte_reconstructor", v |-> v, data |-> digits250(v)] : v \in RoundTripValues}
    \cup {[fn |-> "translate", v |-> 0, data |-> <<byte>>] : byte \in 0..255}
    \cup {[fn |-> "split", v |-> 0, data |-> rawbytes] : rawbytes \in RawBuffers}
    \cup {[fn |-> "positional", v |-> 0, data |-> d] : d \in DigitLists}

InitFunctions ==
    /\ InitFields /\ NoThreads
    /\ spectrum = <<>> /\ stream = <<>> /\ cut = 0 /\ phase = "fn"
    /\ feed = <<>> /\ fn_arg \in FnArgs /\ fn_result = <<>>

\* the result is stored and nothing else changes
Returns(value) ==
    /\ phase = "fn" /\ phase' = "fn_done"
    /\ fn_result' = value
    /\ UNCHANGED <<decoder, spectrum, stream, cut, feed, fn_arg, threads>>

Reconstruct == fn_arg.fn = "byte_reconstructor" /\ Returns(byte_reconstructor(fn_arg.data))

\* the loop of byte_reconstructor over a list of one byte
Translate == fn_arg.fn = "translate" /\ Returns(translated_bytes(fn_arg.data))

SplitChunks == fn_arg.fn = "split" /\ Returns(split(tobytes(fn_arg.data), 255))

\* byte_reconstructor applied to a list of any bytes
ReconstructBytes == fn_arg.fn = "positional" /\ Returns(byte_reconstructor(fn_arg.data))

NextFunctions == Reconstruct \/ Translate \/ SplitChunks \/ ReconstructBytes

SpecFunctions == InitFunctions /\ [][NextFunctions]_vars

(***************************************************************************)
(* The threads. The serial switch starts unchecked (line 432); turning it  *)
(* on (serialSwitch_responder, line 433) makes a new serialinqueue and a   *)
(* new serialthread in which SerialHelper.checkSerial runs: while no       *)
(* interruption is requested it reads a buffer, puts it on the queue it    *)
(* was constructed with and emits youvegotmail. The signal is connected to *)
(* Scintomatic.interpreter, an object of the main thread, so every emit    *)
(* posts one call of interpreter() to the main thread's event loop, which  *)
(* runs the posted calls and the handlers of the switch and of the window  *)
(* one after the other. Turning the switch off and closing the window      *)
(* request the interruption and wait 2050 ms; the handler goes on at that  *)
(* deadline wherever checkSerial is, closes the port and returns. When the *)
(* switch is then turned on while checkSerial still runs, the old helper   *)
(* and its thread are replaced under it: either the old QThread object is  *)
(* destroyed while its thread runs, which aborts the process, or the old   *)
(* checkSerial finishes its turn next to the new one, with the replaced    *)
(* queue and the closed port. read_until on a port closed by the other     *)
(* thread returns what it has or raises, which ends checkSerial.           *)
(***************************************************************************)
\* number of buffers the serial threads read in one behaviour
MaxSerialReads == 2

\* number of times the switch is turned on in one behaviour
MaxSessions == 2

\* what read_until returns in the thread experiment
SerialBuffers == {B_value, B_empty}

\* queue.Queue.put: the item joins the queue at its end
queue_put(q, item) == Append(q, item)

\* queue.Queue.get as a last-in-first-out queue would do it
queue_get_lifo(q) == q[Len(q)]

\* queue.Queue.get: the oldest item of the queue
queue_get(q) == Head(q)

\* the queue after get() took queue_get(q)
queue_rest(q) == Tail(q)

\* the positions in readlog of the buffers within interpreter()'s reach, oldest first
reachable_positions ==
    LET F[i \in 0..Len(readlog)] ==
            IF i = 0 THEN <<>>
            ELSE IF i \in dropped THEN F[i - 1] ELSE Append(F[i - 1], i)
    IN  F[Len(readlog)]

\* the positions in readlog of the buffers that wait on the queue: the queue
\* is first-in-first-out, so they follow the buffers taken
queued_positions ==
    {reachable_positions[j] : j \in (Len(handed) + 1)..(Len(handed) + Len(serialinqueue))}

\* the position in readlog of the buffer that checkSerial holds and has not put
held_positions ==
    IF reader = "put" THEN {reachable_positions[Len(reachable_positions)]} ELSE {}

\* checkSerial of self.serialhelper has started and has not returned
reader_running == reader \in {"guard", "read", "put", "emit"}

\* closeport() has run on the port that checkSerial of self.serialhelper reads
port_closed == (serialswitch = "off" /\ main # "off_wait") \/ serialswitch = "closed"

\* the calls of read_until that have not returned
reads_in_flight ==
    (IF reader = "read" THEN 1 ELSE 0)
    + Cardinality({i \in 1..Len(orphans) : orphans[i].at = "read"})

\* the sequence without its element i
without(seq, i) == SubSeq(seq, 1, i - 1) \o SubSeq(seq, i + 1, Len(seq))

\* the worker threads run until the process is aborted
Running == phase = "threads" /\ main # "crashed"

InitThreads ==
    /\ InitFields /\ NoThreads
    /\ spectrum = <<>> /\ stream = <<>> /\ cut = 0 /\ phase = "threads"
    /\ feed = <<>> /\ fn_arg = <<>> /\ fn_result = <<>>

\* serialSwitch_responder with the switch checked and a port that opens: a new
\* empty queue replaces serialinqueue, and a new helper in a new thread, with
\* no interruption requested, starts checkSerial. Signals already posted stay
\* posted; the buffers on the old queue, and the one the old checkSerial still
\* holds, are out of interpreter()'s reach. An old checkSerial that has not
\* returned goes on with the old queue.
SwitchOn ==
    /\ phase = "threads" /\ main = "idle" /\ serialswitch = "off"
    /\ sessions < MaxSessions
    /\ serialswitch' = "on"
    /\ sessions' = sessions + 1
    /\ dropped' = dropped \cup queued_positions \cup held_positions
    /\ orphans' = IF reader_running
                  THEN Append(orphans, [at |-> reader, bytes |-> reader_bytes])
                  ELSE orphans
    /\ serialinqueue' = <<>>
    /\ interruption' = FALSE
    /\ reader' = "guard"
    /\ UNCHANGED <<decoder, inputs, phase, mail, reader_bytes, main, main_bytes, readlog, handed>>

\* the same click when checkSerial has not returned and line 547 destroys the
\* QThread object of the thread that still runs: Qt aborts the process
SwitchOnCrash ==
    /\ phase = "threads" /\ main = "idle" /\ serialswitch = "off"
    /\ sessions < MaxSessions
    /\ reader_running
    /\ main' = "crashed"
    /\ UNCHANGED <<decoder, inputs, phase, serialinqueue, mail, reader, reader_bytes,
                   main_bytes, readlog, handed, interruption, serialswitch, sessions,
                   orphans, dropped>>

\* serialSwitch_responder with the switch unchecked, up to its wait():
\* self.serialthread.requestInterruption()
SwitchOffRequest ==
    /\ phase = "threads" /\ main = "idle" /\ serialswitch = "on"
    /\ interruption' = TRUE
    /\ main' = "off_wait"
    /\ serialswitch' = "off"
    /\ UNCHANGED <<decoder, inputs, phase, serialinqueue, mail, reader, reader_bytes,
                   main_bytes, readlog, handed, sessions, orphans, dropped>>

\* the rest of serialSwitch_responder with the switch unchecked: the thread
\* stays in its event loop until quit(), so wait(2050) ends at its deadline,
\* wherever checkSerial is; then quit() and closeport()
SwitchOffDone ==
    /\ phase = "threads" /\ main = "off_wait"
    /\ main' = "idle"
    /\ UNCHANGED <<decoder, inputs, phase, serialinqueue, mail, reader, reader_bytes,
                   main_bytes, readlog, handed, interruption, serialswitch, sessions,
                   orphans, dropped>>

\* closeEvent up to its wait(): requestInterruption() and quit(); with no
\* thread ever started the AttributeError is caught and app.quit() follows
CloseEvent ==
    /\ phase = "threads" /\ main = "idle" /\ serialswitch # "closed"
    /\ IF sessions = 0
       THEN /\ main' = "closed" /\ serialswitch' = "closed"
            /\ UNCHANGED interruption
       ELSE /\ main' = "close_wait" /\ interruption' = TRUE
            /\ UNCHANGED serialswitch
    /\ UNCHANGED <<decoder, inputs, phase, serialinqueue, mail, reader, reader_bytes,
                   main_bytes, readlog, handed, sessions, orphans, dropped>>

\* the rest of closeEvent, when the thread has finished or at the deadline of
\* wait(2050): closeport(), the autosaves and app.quit(), after which the
\* event loop delivers nothing
CloseDone ==
    /\ phase = "threads" /\ main = "close_wait"
    /\ main' = "closed"
    /\ serialswitch' = "closed"
    /\ UNCHANGED <<decoder, inputs, phase, serialinqueue, mail, reader, reader_bytes,
                   main_bytes, readlog, handed, interruption, sessions, orphans, dropped>>

\* while not QtCore.QThread.currentThread().isInterruptionRequested(): the
\* guard holds and checkSerial calls read_until
ReaderEnter ==
    /\ Running /\ reader = "guard" /\ ~interruption
    /\ Len(readlog) + reads_in_flight < MaxSerialReads
    /\ reader' = "read"
    /\ UNCHANGED <<decoder, inputs, phase, serialinqueue, mail, reader_bytes, main,
                   main_bytes, readlog, handed, interruption, serialswitch, sessions,
                   orphans, dropped>>

\* the same guard once the interruption is requested: checkSerial returns
ReaderExit ==
    /\ Running /\ reader = "guard" /\ interruption
    /\ reader' = "exited"
    /\ UNCHANGED <<decoder, inputs, phase, serialinqueue, mail, reader_bytes, main,
                   main_bytes, readlog, handed, interruption, serialswitch, sessions,
                   orphans, dropped>>

\* receivedbytes = self.scintcomm.read_until(b'\r')
ReaderRead ==
    /\ Running /\ reader = "read"
    /\ \E rawbytes \in SerialBuffers :
          /\ reader_bytes' = rawbytes
          /\ readlog' = Append(readlog, rawbytes)
    /\ reader' = "put"
    /\ UNCHANGED <<decoder, inputs, phase, serialinqueue, mail, main, main_bytes, handed,
                   interruption, serialswitch, sessions, orphans, dropped>>

\* read_until raises because closeport() closed the port under it: the
\* exception ends checkSerial
ReaderRaise ==
    /\ Running /\ reader = "read" /\ port_closed
    /\ reader' = "exited"
    /\ UNCHANGED <<decoder, inputs, phase, serialinqueue, mail, reader_bytes, main,
                   main_bytes, readlog, handed, interruption, serialswitch, sessions,
                   orphans, dropped>>

\* self.serialinqueue.put(receivedbytes)
ReaderPut ==
    /\ Running /\ reader = "put"
    /\ serialinqueue' = queue_put(serialinqueue, reader_bytes)
    /\ reader' = "emit"
    /\ UNCHANGED <<decoder, inputs, phase, mail, reader_bytes, main, main_bytes, readlog,
                   handed, interruption, serialswitch, sessions, orphans, dropped>>

\* self.youvegotmail.emit(), then the sleep and back to the guard of the loop
ReaderEmit ==
    /\ Running /\ reader = "emit"
    /\ mail' = mail + 1
    /\ reader' = "guard"
    /\ UNCHANGED <<decoder, inputs, phase, serialinqueue, reader_bytes, main, main_bytes,
                   readlog, handed, interruption, serialswitch, sessions, orphans, dropped>>

\* one step of a checkSerial whose helper was replaced. The interruption of
\* its thread is requested, so at the guard it returns; its port is closed,
\* so read_until returns a buffer or raises; it puts the buffer on the
\* replaced queue, where interpreter() does not look, and its emit posts one
\* more call of interpreter().
OrphanStep ==
    /\ Running
    /\ \E i \in 1..Len(orphans) :
          LET o == orphans[i] IN
          \/ /\ o.at = "guard"
             /\ orphans' = without(orphans, i)
             /\ UNCHANGED <<readlog, dropped, mail>>
          \/ /\ o.at = "read"
             /\ \E rawbytes \in SerialBuffers :
                   /\ orphans' = [orphans EXCEPT ![i] = [at |-> "put", bytes |-> rawbytes]]
                   /\ readlog' = Append(readlog, rawbytes)
             /\ dropped' = dropped \cup {Len(readlog) + 1}
             /\ UNCHANGED mail
          \/ /\ o.at = "read"
             /\ orphans' = without(orphans, i)
             /\ UNCHANGED <<readlog, dropped, mail>>
          \/ /\ o.at = "put"
             /\ orphans' = [orphans EXCEPT ![i].at = "emit"]
             /\ UNCHANGED <<readlog, dropped, mail>>
          \/ /\ o.at = "emit"
             /\ orphans' = [orphans EXCEPT ![i].at = "guard"]
             /\ mail' = mail + 1
             /\ UNCHANGED <<readlog, dropped>>
    /\ UNCHANGED <<decoder, inputs, phase, serialinqueue, reader, reader_bytes, main,
                   main_bytes, handed, interruption, serialswitch, sessions>>

\* the event loop delivers one signal: interpreter() starts and takes a buffer
\* from the current serialinqueue with get(block=False), or returns at once
\* when that queue is empty
MainGet ==
    /\ phase = "threads" /\ main = "idle" /\ mail > 0
    /\ mail' = mail - 1
    /\ IF serialinqueue = <<>>
       THEN UNCHANGED <<serialinqueue, main, main_bytes, handed>>
       ELSE /\ main_bytes' = queue_get(serialinqueue)
            /\ serialinqueue' = queue_rest(serialinqueue)
            /\ handed' = Append(handed, queue_get(serialinqueue))
            /\ main' = "busy"
    /\ UNCHANGED <<decoder, inputs, phase, reader, reader_bytes, readlog,
                   interruption, serialswitch, sessions, orphans, dropped>>

\* the rest of interpreter() for the buffer it took
MainRun ==
    /\ phase = "threads" /\ main = "busy"
    /\ Call(main_bytes)
    /\ main' = "idle"
    /\ UNCHANGED <<inputs, phase, serialinqueue, mail, reader, reader_bytes, main_bytes,
                   readlog, handed, interruption, serialswitch, sessions, orphans, dropped>>

NextThreads ==
    \/ SwitchOn \/ SwitchOnCrash \/ SwitchOffRequest \/ SwitchOffDone
    \/ CloseEvent \/ CloseDone
    \/ ReaderEnter \/ ReaderExit \/ ReaderRead \/ ReaderRaise \/ ReaderPut \/ ReaderEmit
    \/ OrphanStep
    \/ MainGet \/ MainRun

\* the serial threads run whenever they can, the event loop delivers every
\* posted signal and a handler that waits goes on at the deadline; when the
\* user turns the switch or closes the window is open, and so is whether a
\* read on a closed port raises
SpecThreads ==
    /\ InitThreads /\ [][NextThreads]_vars
    /\ WF_vars(ReaderEnter) /\ WF_vars(ReaderExit)
    /\ WF_vars(ReaderRead \/ ReaderRaise)
    /\ WF_vars(ReaderPut) /\ WF_vars(ReaderEmit) /\ WF_vars(OrphanStep)
    /\ WF_vars(MainGet) /\ WF_vars(MainRun)
    /\ WF_vars(SwitchOffDone) /\ WF_vars(CloseDone)

(***************************************************************************)
(* Properties                                                              *)
(***************************************************************************)
IsPrefix(a, b) == Len(a) <= Len(b) /\ SubSeq(b, 1, Len(a)) = a

\* the step is a call of interpreter() that takes branch b of the dispatch
Took(b) == nreads' = nreads + 1 /\ branch(Self, lastraw') = b

\* the step is a call of interpreter() that re-initialises the spectrum panel
Resets == nreads' = nreads + 1 /\ spectrum_reset(Self, lastraw')

\* C1: a stream delivered as the two buffers stream[0..cut) and stream[cut..)
\* inside one binary block gives, once the block has ended, the same ydata as
\* the same stream delivered as one buffer, for every split offset.
FragmentationRobust ==
    phase = "done" => ydata = unfragmented(stream).ydata

\* C2: ydata never holds more than 1024 values.
LengthAtMost1024 == Len(ydata) <= 1024

\* C3: when =>End(binary) closes a binary block, the shortfall error is raised
\* if ydata holds fewer than 1024 values and no error is raised if it holds
\* exactly 1024 values (the Bitsum line plays no part in it).
ShortfallIffShort ==
    [][(Took("end_binary") /\ binaryblock) =>
          /\ (Len(ydata') < 1024 => raised' = "ScintomaticError")
          /\ (Len(ydata') = 1024 => raised' = "none")]_vars

\* C4: a spectrum of exactly 1024 channels that arrives in one buffer inside a
\* binary block leaves ydata with 1024 values, and =>End(binary) raises nothing.
CompleteSpectrumDecodes ==
    (phase = "wdone" /\ Len(spectrum) = 1024) => (Len(ydata) = 1024 /\ raised = "none")

\* C5: between two re-initialisations of the spectrum panel ydata only grows
\* at its end: every call leaves the old ydata as a prefix of the new one.
AppendOnly == [][Resets \/ IsPrefix(ydata, ydata')]_vars

\* C5 witness: =>End(binary) flushed a held fragment behind a value decoded earlier
AppendOnlyWitness ==
    /\ lastraw = L_EndBinary
    /\ raised = "ScintomaticError"
    /\ interrupted_bytechunk \notin {<<>>, Unset}
    /\ Len(ydata) >= 2


\* C6 as stated: each of the two lines that start a new acquisition, the
\* spectrum's "Start Time" and "=>Start(binary)", leaves ydata empty, bitsum 0
\* and no fragment held.
ResetClearsAll ==
    [][(Resets \/ Took("start_binary")) =>
          /\ ydata' = <<>>
          /\ bitsum' = 0
          /\ interrupted_bytechunk' \in {<<>>, Unset}]_vars

\* C6 amended: the reset is split over the two lines.  The spectrum's
\* "Start Time" empties ydata and zeroes bitsum and leaves the held fragment
\* and the block flag as they are; "=>Start(binary)" empties the held fragment
\* and opens the block and leaves ydata and bitsum as they are.
ResetInTwoParts ==
    [][/\ Resets =>
            /\ ydata' = <<>> /\ xdata' = 0 /\ bitsum' = 0
            /\ interrupted_bytechunk' = interrupted_bytechunk
            /\ binaryblock' = binaryblock
       /\ Took("start_binary") =>
            /\ interrupted_bytechunk' = <<>> /\ binaryblock'
            /\ ydata' = ydata /\ bitsum' = bitsum]_vars

\* C6 witness: the spectrum's "Start Time" was processed inside an interrupted
\* block, and the fragment of that block is still held
ResetWitness ==
    /\ lastraw = L_StartTime
    /\ prevline = strip(L_StartTime, {NL})
    /\ binaryblock
    /\ interrupted_bytechunk \notin {<<>>, Unset}
    /\ ydata = <<>> /\ bitsum = 0

\* the bytes of a buffer before its first 252
before252(rawbytes) == SubSeq(rawbytes, 1, find(rawbytes, 252) - 1)

\* C7: the buffer in which the first 252 arrives adds to ydata only what the
\* bytes before the 252 encode, and once a 252 has arrived no call adds to
\* ydata until the acquisition is reset or a new block is started.
EndOfStreamStops ==
    [][/\ (Took("binary") /\ ~seen252 /\ find(lastraw', 252) # 0) =>
             ydata' = on_binary(Self, before252(lastraw') \o <<255>>).ydata
       /\ (seen252 /\ nreads' = nreads + 1 /\ ~Resets) => ydata' = ydata]_vars

\* C8: interpreting a buffer of a binary block raises no exception.
NoExceptionInBinary == [][Took("binary") => raised' = "none"]_vars

\* C9: when the block carries more than 1024 values, ydata keeps the first
\* 1024 of them and =>End(binary) raises nothing.
OverrunDropped ==
    (phase = "wdone" /\ Len(spectrum) > 1024) =>
        (ydata = SubSeq(spectrum, 1, 1024) /\ raised = "none")

\* C10: a call of interpreter() for an empty buffer changes neither ydata nor
\* bitsum nor the held fragment nor the block flag.
EmptyBufferNoOp ==
    [][(nreads' = nreads + 1 /\ lastraw' = <<>>) =>
          /\ ydata' = ydata
          /\ bitsum' = bitsum
          /\ interrupted_bytechunk' = interrupted_bytechunk
          /\ binaryblock' = binaryblock]_vars

\* C10 witness: an empty buffer was read inside a block while a fragment was
\* held and values had been decoded
EmptyBufferWitness ==
    /\ lastraw = <<>> /\ nreads >= 3
    /\ binaryblock
    /\ interrupted_bytechunk \notin {<<>>, Unset}
    /\ ydata # <<>> /\ bitsum > 0

\* the buffers read that are within interpreter()'s reach, in the order read
undropped == [j \in 1..Len(reachable_positions) |-> readlog[reachable_positions[j]]]

\* the buffer checkSerial has read and not yet put
pending_put == IF reader = "put" THEN <<reader_bytes>> ELSE <<>>

\* the buffer at position k of readlog was interpreted or is out of reach
settled(k) == k \in dropped \/ Cardinality({p \in 1..k : p \notin dropped}) <= nreads

\* C11 as stated: the buffers the serial thread reads reach interpreter() in
\* the order they were read and each exactly once: at every moment the
\* buffers read are the buffers taken, then the queued ones, then the one
\* about to be put; a buffer is taken only when every call before it has
\* finished, the calls run for the buffers in the order taken, and every
\* buffer read is interpreted in the end.
HandedInOrderOnce ==
    /\ [](readlog = handed \o serialinqueue \o pending_put)
    /\ [][handed' # handed => (main = "idle" /\ nreads = Len(handed))]_vars
    /\ [][nreads' = nreads + 1 => lastraw' = handed[nreads']]_vars
    /\ \A k \in 1..MaxSerialReads : [](Len(readlog) >= k => <>(nreads >= k))

\* C11: the buffers the serial threads read reach interpreter() in the order
\* they were read, each at most once and one at a time: the buffers read and
\* still within reach are the buffers taken, then the queued ones, then the
\* one about to be put; a buffer gets out of reach only when the switch is
\* turned on again before it is taken, or when it is read by a checkSerial
\* whose queue was replaced; a buffer is taken only when every call before it
\* has finished, the calls run for the buffers in the order taken, and every
\* buffer read is interpreted in the end unless it got out of reach, the
\* window is closed or the process is aborted first.
HandedInOrderUnlessRestarted ==
    /\ [](undropped = handed \o serialinqueue \o pending_put)
    /\ [][dropped' # dropped =>
             \/ serialswitch = "off" /\ serialswitch' = "on"
             \/ orphans' # orphans /\ dropped' = dropped \cup {Len(readlog')}]_vars
    /\ [][handed' # handed => (main = "idle" /\ nreads = Len(handed))]_vars
    /\ [][nreads' = nreads + 1 => lastraw' = handed[nreads']]_vars
    /\ \A k \in 1..MaxSerialReads :
          [](Len(readlog) >= k =>
                <>(settled(k) \/ serialswitch = "closed" \/ main = "crashed"))

\* C11 witness: the first buffer read got out of reach when the switch was
\* turned on for the second time, and the call for the second one is in progress
HandedWitness ==
    /\ sessions = 2 /\ dropped = {1}
    /\ Len(readlog) = 2 /\ readlog[1] # readlog[2]
    /\ main = "busy" /\ main_bytes = readlog[2] /\ nreads = 0

\* C12: a buffer that holds the zero-run instruction (251, N), read when no
\* fragment is held, appends exactly N zeros to ydata, for every N in 1..251.
ZeroRunAppends ==
    [][(Took("binary") /\ interrupted_bytechunk = <<>> /\ lastraw' \in ZeroRunBuffers) =>
          /\ Len(ydata') = Len(ydata) + lastraw'[2]
          /\ IsPrefix(ydata, ydata')
          /\ \A i \in (Len(ydata) + 1)..Len(ydata') : ydata'[i] = 0
          /\ raised' = "none"]_vars

\* C12 witness: the longest run, 251 zeros, was appended behind a value
ZeroRunWitness ==
    /\ phase = "bfed" /\ lastraw = <<251, 251, 255>>
    /\ Len(ydata) = 252 /\ ydata[1] = 7 /\ ydata[252] = 0

\* C13 as stated: the buffer [251, 251, 3, 255] decodes to 254 zeros.
ChainedRunIs254Zeros ==
    (phase = "bfed" /\ feed = <<B_run3>>) => ydata = zeros(254)

\* C13 amended: the buffer [251, 251, 3, 255] decodes to 251 zeros followed by
\* the value 3 (252 entries); 254 zeros are what [251, 251, 251, 3, 255] decodes to.
ChainedRunThenValue ==
    /\ (phase = "bfed" /\ feed = <<B_run3>>) => ydata = zeros(251) \o <<3>>
    /\ (phase = "bfed" /\ feed = <<B_zeros254>>) => ydata = zeros(254)

\* C13 witness: [251, 251, 3, 255] was decoded
ChainedRunWitness ==
    /\ phase = "bfed" /\ feed = <<B_run3>>
    /\ Len(ydata) = 252 /\ ydata[252] = 3 /\ raised = "none"

\* C14: for every value v of one to three base-250 digits, the digits of v,
\* least significant first, are reconstructed to v; so are the bytes the
\* instrument sends for them (253 for the digit 13, 254 for the digit 35).
RoundTrip ==
    (phase = "fn_done" /\ fn_arg.fn = "byte_reconstructor") => fn_result = fn_arg.v

\* C14 witness: the largest value, 15624999, was reconstructed from its digits
RoundTripWitness ==
    /\ phase = "fn_done" /\ fn_arg.fn = "byte_reconstructor"
    /\ fn_arg.data = <<249, 249, 249>> /\ fn_result = 15624999

\* C15: the substitution gives 13 for the byte 253, 35 for the byte 254 and the
\* byte itself for every byte in 0..250 (and for 251 and 255); it returns a
\* result for every byte, which for 252 is the end of the list.
TranslationTotal ==
    (phase = "fn_done" /\ fn_arg.fn = "translate") =>
        LET byte == fn_arg.data[1] IN
        /\ byte = 253 => fn_result = <<13>>
        /\ byte = 254 => fn_result = <<35>>
        /\ byte \in 0..250 => fn_result = <<byte>>
        /\ byte \in {251, 255} => fn_result = <<byte>>
        /\ byte = 252 => fn_result = <<>>

\* C15 witness: the byte 253 was translated
TranslationWitness ==
    phase = "fn_done" /\ fn_arg.fn = "translate" /\ fn_arg.data = <<253>> /\ fn_result = <<13>>

\* C19: the chunks of a raw buffer split at 255, joined with one 255 between
\* consecutive chunks, are the buffer again.
SplitJoin ==
    (phase = "fn_done" /\ fn_arg.fn = "split") => join(fn_result, 255) = fn_arg.data

\* C19 witness: a buffer with a leading, two adjacent and a trailing separator was split
SplitJoinWitness ==
    /\ phase = "fn_done" /\ fn_arg.fn = "split"
    /\ fn_arg.data = <<255, 255, 7, 255>>
    /\ fn_result = <<<<>>, <<>>, <<7>>, <<>>>>

\* TRUE for a buffer whose last byte is the separator
separator_aligned(rawbytes) == rawbytes # <<>> /\ rawbytes[Len(rawbytes)] = 255

\* what the buffers decode to one by one, each alone in a block, in order
RECURSIVE decoded_alone(_)
decoded_alone(buffers) ==
    IF buffers = <<>> THEN <<>> ELSE alone(Head(buffers)) \o decoded_alone(Tail(buffers))

\* C16: when every buffer of the block ends with the separator 255, ydata
\* after the last buffer is the concatenation, in order, of what each buffer
\* decodes to alone.
Compositional ==
    (phase = "bfed" /\ \A i \in DOMAIN feed : separator_aligned(feed[i])) =>
        ydata = decoded_alone(feed)

\* C17: in every state bitsum is the number of set bits of all raw bytes of
\* the binary buffers received since the last spectrum reset, each byte
\* counted once, and it is 0 after the reset.
ChecksumCountsEveryByte ==
    bitsum = bits_received

\* C18: the call that takes the Bitsum line, with a number that matches
\* bitsum or not, leaves ydata, interrupted_bytechunk and binaryblock as they
\* were and raises nothing; the ring shows the check mark or the approximate
\* sign, never the failure mark, also when ydata holds 1024 values.
BitsumAdvisory ==
    [][Took("bitsum") =>
          /\ ydata' = ydata
          /\ interrupted_bytechunk' = interrupted_bytechunk
          /\ binaryblock' = binaryblock
          /\ raised' = "none"
          /\ ringtext' \in {"check", "approx"}]_vars

\* C18 witness: 1024 values were decoded, the block was closed without an
\* error, and the Bitsum line that followed carried another number than bitsum
BitsumAdvisoryWitness ==
    /\ lastraw = L_Bitsum /\ nreads = 4
    /\ Len(ydata) = 1024 /\ ~binaryblock /\ bitsum = 73
    /\ ringtext = "approx" /\ raised = "none"

\* a call of the binary branch for a non-empty buffer while a fragment is held
FragmentMeetsBuffer ==
    Took("binary") /\ interrupted_bytechunk # <<>> /\ lastraw' # <<>>

\* the chunks handed to bytechunk_interpreter from position first on are the
\* chunks split from the buffer from position first - shift on, each as it is
\* or, when it is held back, empty
RestFromBuffer(first, shift) ==
    LET naive == split(tobytes(lastraw'), 255) IN
    /\ Len(chunks_handed') = Len(naive) + shift
    /\ \A i \in first..Len(chunks_handed') : chunks_handed'[i] \in {naive[i - shift], <<>>}

\* C20 as stated: with a fragment held and a non-empty buffer, a first byte
\* 255 or 252 makes the fragment the first chunk handed on, ahead of all the
\* buffer's chunks; any other first byte makes the first chunk handed on the
\* fragment followed by the buffer's first chunk, the other chunks being the
\* buffer's own.
ReassemblyAlwaysFirst ==
    [][FragmentMeetsBuffer =>
          IF lastraw'[1] \in {255, 252}
          THEN chunks_handed'[1] = interrupted_bytechunk /\ RestFromBuffer(2, 1)
          ELSE /\ chunks_handed'[1] =
                      interrupted_bytechunk \o split(tobytes(lastraw'), 255)[1]
               /\ RestFromBuffer(2, 0)]_vars

\* C20 amended: as above, except that a buffer without any 255 that does not
\* end with 252 only lengthens the fragment: the joined chunk is held again
\* and an empty chunk is handed on in its place.
ReassemblyUnlessHeldAgain ==
    [][FragmentMeetsBuffer =>
          LET naive == split(tobytes(lastraw'), 255)
              held_again == Len(naive) = 1 /\ lastraw'[Len(lastraw')] # 252
          IN IF lastraw'[1] \in {255, 252}
             THEN chunks_handed'[1] = interrupted_bytechunk /\ RestFromBuffer(2, 1)
             ELSE /\ RestFromBuffer(2, 0)
                  /\ IF held_again
                     THEN /\ chunks_handed'[1] = <<>>
                          /\ interrupted_bytechunk' = interrupted_bytechunk \o naive[1]
                     ELSE chunks_handed'[1] = interrupted_bytechunk \o naive[1]]_vars

\* C20 witness: the byte 7 was held, the buffer (7, 255) completed it: the
\* chunk (7, 7) was handed on first and decoded as 7 + 7 * 250
ReassemblyWitness ==
    /\ phase = "bfed" /\ feed = <<<<7>>, <<7, 255>>>>
    /\ chunks_handed = <<<<7, 7>>, <<>>>>
    /\ ydata = <<1757>> /\ interrupted_bytechunk = <<>>

\* the chunk list of the buffer just taken, after the check of the held fragment
Reassembled ==
    reassemble(interrupted_bytechunk, lastraw', split(tobytes(lastraw'), 255))

\* C21: after a call of the binary branch for a non-empty buffer, if the
\* buffer's last byte is 255 or 252 interrupted_bytechunk is empty and the
\* reassembled chunks are handed on as they are; otherwise
\* interrupted_bytechunk is the last reassembled chunk and an empty chunk is
\* handed on in its place.
HoldOnLastByte ==
    [][(Took("binary") /\ lastraw' # <<>>) =>
          IF lastraw'[Len(lastraw')] \in {255, 252}
          THEN interrupted_bytechunk' = <<>> /\ chunks_handed' = Reassembled
          ELSE /\ interrupted_bytechunk' = Reassembled[Len(Reassembled)]
               /\ chunks_handed' = [Reassembled EXCEPT ![Len(Reassembled)] = <<>>]]_vars

\* C21 witness: with the byte 7 held, the buffer (255, 7) arrived: the held 7
\* was decoded, the new 7 is held and was not decoded
HoldOnLastByteWitness ==
    /\ phase = "bfed" /\ feed = <<<<7>>, <<255, 7>>>>
    /\ chunks_handed = <<<<7>>, <<>>, <<>>>>
    /\ interrupted_bytechunk = <<7>> /\ ydata = <<7>>

\* the bytes of a chunk after its leading (251, N) pairs
RECURSIVE after_runs(_)
after_runs(chunk) ==
    IF Len(chunk) >= 2 /\ chunk[1] = 251 THEN after_runs(DropFirst(chunk, 2)) ELSE chunk

\* the sum of the run-length bytes N of the leading (251, N) pairs
RECURSIVE raw_run_total(_)
raw_run_total(chunk) ==
    IF Len(chunk) >= 2 /\ chunk[1] = 251 THEN chunk[2] + raw_run_total(DropFirst(chunk, 2))
    ELSE 0

\* the same sum with every run-length byte translated: 253 counts 13, 254
\* counts 35 and 252 counts nothing
RECURSIVE translated_run_total(_)
translated_run_total(chunk) ==
    IF Len(chunk) >= 2 /\ chunk[1] = 251
    THEN (CASE chunk[2] = 253 -> 13 [] chunk[2] = 254 -> 35 [] chunk[2] = 252 -> 0
            [] OTHER -> chunk[2]) + translated_run_total(DropFirst(chunk, 2))
    ELSE 0

\* TRUE for a buffer that is one chunk (251, N1, ..., 251, Nk, d1..dm) and its
\* separator, with d1 neither 251 nor 252
chain_buffer(rawbytes) ==
    /\ Len(rawbytes) >= 3 /\ rawbytes[1] = 251 /\ find(rawbytes, 255) = Len(rawbytes)
    /\ LET d == after_runs(SubSeq(rawbytes, 1, Len(rawbytes) - 1))
       IN d = <<>> \/ d[1] \notin {251, 252}

\* a call of the binary branch for such a buffer while no fragment is held
ChainDecoded ==
    Took("binary") /\ interrupted_bytechunk = <<>> /\ chain_buffer(lastraw')

\* what the call appended to ydata is total zeros and then the value of the
\* bytes after the runs, when there are any
ChainAppends(total) ==
    LET d == after_runs(SubSeq(lastraw', 1, Len(lastraw') - 1)) IN
    /\ raised' = "none"
    /\ ydata' = ydata \o [i \in 1..total |-> 0]
                      \o (IF d = <<>> THEN <<>> ELSE <<byte_reconstructor(d)>>)

\* C22 as stated: a chunk (251, N1, ..., 251, Nk, d1..dm) appends
\* N1 + ... + Nk zeros and then, if m > 0, the one value of d1..dm, and
\* nothing else.
ChainRawLengths ==
    [][ChainDecoded =>
          ChainAppends(raw_run_total(SubSeq(lastraw', 1, Len(lastraw') - 1)))]_vars

\* C22 amended: the number of zeros of each pair is the translated run-length
\* byte: N itself for N up to 251, 13 for 253, 35 for 254, none for 252.
ChainTranslatedLengths ==
    [][ChainDecoded =>
          ChainAppends(translated_run_total(SubSeq(lastraw', 1, Len(lastraw') - 1)))]_vars

\* C22 witness: the chunk (251, 251, 251, 253, 3, 1) was decoded to 251 + 13
\* zeros and the value 3 + 1 * 250
ChainWitness ==
    /\ phase = "bfed" /\ feed = <<<<251, 251, 251, 253, 3, 1, 255>>>>
    /\ Len(ydata) = 265 /\ ydata[264] = 0 /\ ydata[265] = 253 /\ raised = "none"

\* the sum of t(b_i) * 250^i over the bytes of data, the first at position i
RECURSIVE weighted_sum(_, _)
weighted_sum(data, i) ==
    IF data = <<>> THEN 0
    ELSE (CASE Head(data) = 253 -> 13 [] Head(data) = 254 -> 35 [] OTHER -> Head(data)) * (250 ^ i)
         + weighted_sum(Tail(data), i + 1)

\* data with every 252 taken out
without252(data) == SelectSeq(data, LAMBDA b : b # 252)

\* data up to its first 252, all of it when it has none
upto252(data) == IF find(data, 252) = 0 THEN data ELSE before252(data)

\* C23 as stated: byte_reconstructor returns the sum of t(b_i) * 250^i over
\* all bytes of the list except the 252 entries, least significant first;
\* the empty list gives 0 and the result is not negative.
PositionalSkipping252 ==
    (phase = "fn_done" /\ fn_arg.fn = "positional") =>
        fn_result = weighted_sum(without252(fn_arg.data), 0) /\ fn_result >= 0

\* C23 amended: the sum is over the bytes before the first 252; the bytes
\* after it do not count.
PositionalUpTo252 ==
    (phase = "fn_done" /\ fn_arg.fn = "positional") =>
        /\ fn_result = weighted_sum(upto252(fn_arg.data), 0)
        /\ fn_result >= 0
        /\ fn_arg.data = <<>> => fn_result = 0

\* C23 witness: the list (253, 254) was reconstructed to 13 + 35 * 250
PositionalWitness ==
    phase = "fn_done" /\ fn_arg.fn = "positional" /\ fn_arg.data = <<253, 254>> /\ fn_result = 8763

\* the bytes of the buffers of feed interpreted so far, in order
RECURSIVE flatten(_)
flatten(buffers) == IF buffers = <<>> THEN <<>> ELSE Head(buffers) \o flatten(Tail(buffers))

received == flatten(SubSeq(feed, 1, nreads - 1))

\* the bytes of data after its last 255, all of data when it has none
RECURSIVE tail_after_separator(_)
tail_after_separator(data) ==
    IF find(data, 255) = 0 THEN data ELSE tail_after_separator(DropFirst(data, find(data, 255)))

\* TRUE when a is b with some of its bytes left out
RECURSIVE IsSubsequence(_, _)
IsSubsequence(a, b) ==
    IF a = <<>> THEN TRUE
    ELSE IF b = <<>> THEN FALSE
    ELSE IF Head(a) = Head(b) THEN IsSubsequence(Tail(a), Tail(b))
    ELSE IsSubsequence(a, Tail(b))

\* TRUE when some buffer interpreted so far is made of newline bytes only
newline_buffer_received ==
    \E i \in 1..(nreads - 1) : strip(feed[i], {NL}) = <<>>

\* C24: in every state interrupted_bytechunk contains no 255, and inside a
\* block it holds bytes of one chunk only: its bytes are bytes received
\* after the last 255, in their order, and they are all of them as long as
\* no 252 and no buffer of newline bytes only was received.
FragmentIsOneChunk ==
    /\ \A i \in DOMAIN interrupted_bytechunk : interrupted_bytechunk[i] # 255
    /\ phase \in {"bfeed", "bfed"} =>
          /\ IsSubsequence(interrupted_bytechunk, tail_after_separator(received))
          /\ (find(received, 252) = 0 /\ ~newline_buffer_received)
                => interrupted_bytechunk = tail_after_separator(received)

\* C24 witness: a chunk spread over three reads is held whole, after a
\* separator in the first read
FragmentWitness ==
    /\ phase = "bfed" /\ feed = <<<<1, 255>>, <<7>>, <<251>>>>
    /\ interrupted_bytechunk = <<7, 251>> /\ ydata = <<1>>

\* the chunks handed to bytechunk_interpreter by the call just made, the empty ones left out
NonEmptyHanded == SelectSeq(chunks_handed', LAMBDA chunk : chunk # <<>>)

\* C25: empty chunks add nothing to ydata: a call of the binary branch leaves
\* ydata as the decoding of the non-empty chunks alone leaves it, and a buffer
\* of separators only, with no fragment held, leaves ydata as it was.
EmptyChunkSkipped ==
    [][Took("binary") =>
          /\ ydata' = decode_chunks(ydata, NonEmptyHanded).y
          /\ (interrupted_bytechunk = <<>> /\ \A i \in DOMAIN lastraw' : lastraw'[i] = 255)
                => ydata' = ydata]_vars

\* C25 witness: after two adjacent separators, a buffer with a leading
\* separator and a held-back byte handed on two empty chunks and ydata is
\* still empty
EmptyChunkWitness ==
    /\ phase = "bfed" /\ feed = <<<<255, 255>>, <<255, 7>>>>
    /\ chunks_handed = <<<<>>, <<>>>> /\ interrupted_bytechunk = <<7>>
    /\ ydata = <<>> /\ raised = "none"

\* C26: after every call of interpreter, returned or raised, xdata is
\* range(0, len(ydata)): the two sequences have the same length.
ChannelIndexIsPosition ==
    xdata = Len(ydata)

\* the x values of the time series before the call just made, and the last of them
LastX == time_xdata[Len(time_xdata)]

\* the three rules of the time branch for the raw time t of the line just taken
TimeRules ==
    [][Took("time") =>
          LET t == raw_time(lastraw') IN
          /\ t < prevtime => (~non_sec_mode' /\ time_xdata' = <<t>>)
          /\ t = prevtime => (non_sec_mode' /\ time_xdata' = Append(time_xdata, LastX + 1))
          /\ t > prevtime =>
                /\ non_sec_mode' = non_sec_mode
                /\ time_xdata' = Append(time_xdata, IF non_sec_mode THEN LastX + 1 ELSE t)]_vars

\* C27: a raw time below the previous one clears the series and switches the
\* one-point-per-second mode off before the point is appended, a raw time
\* equal to the previous one switches the mode on, the appended x is the last
\* x plus 1 in that mode and the raw time otherwise; and the x values of the
\* time series are strictly increasing.
TimeSeriesIncreasing ==
    /\ TimeRules
    /\ [](\A i \in 1..(Len(time_xdata) - 1) : time_xdata[i] < time_xdata[i + 1])

\* TRUE when feed is one chunk spread over two or more non-empty buffers:
\* only the last buffer contains a 255
spread_chunk(buffers) ==
    /\ Len(buffers) >= 2
    /\ \A i \in DOMAIN buffers : buffers[i] # <<>>
    /\ \A i \in 1..(Len(buffers) - 1) : find(buffers[i], 255) = 0
    /\ find(buffers[Len(buffers)], 255) # 0

\* C28: a chunk whose bytes arrive in two or more consecutive non-empty
\* buffers, the separator only in the last, is decoded once, as the
\* concatenation of its pieces: ydata is what the same bytes give in one buffer.
SpreadChunkDecodes ==
    (phase = "bfed" /\ spread_chunk(feed)) => ydata = alone(flatten(feed))

\* C29: while binaryblock is set, the call for a non-empty buffer of the block
\* takes the binary branch: the buffer is split, reassembled and its chunks
\* are handed to bytechunk_interpreter.
EveryBufferDecoded ==
    [][(binaryblock /\ nreads' = nreads + 1 /\ lastraw' # <<>>) =>
          /\ branch(Self, lastraw') = "binary"
          /\ chunks_handed' = chunks_to_decode(interrupted_bytechunk, lastraw')]_vars

\* C30: the call that takes the End line decodes the held fragment as a last
\* chunk and leaves no fragment held, so that nothing later decodes it again.
FragmentFlushedOnce ==
    [][(Took("end_binary") /\ interrupted_bytechunk # Unset) =>
          /\ chunks_handed' = <<interrupted_bytechunk>>
          /\ ydata' = decode_chunks(ydata, <<interrupted_bytechunk>>).y
          /\ interrupted_bytechunk' = <<>>]_vars

====
